---- MODULE Spec2Model ----
(***************************************************************************)
(* Model of scripts/send_keys.py: EnhancedSSHKeyEmailer and main().        *)
(*                                                                         *)
(* One run of the script is one behaviour.  The command line (SMTP         *)
(* settings, override recipient, dry-run flag, terraform directory) is     *)
(* fixed in Init; the files, the terraform command and the mail relay are  *)
(* the environment, whose answers are chosen when the code reads them.     *)
(*                                                                         *)
(* Python values: None is the string None, a missing dictionary key is the *)
(* string Absent, so that truthiness and KeyError are what the code does.  *)
(* User records always carry full_name; the email field is the one that    *)
(* is varied.                                                              *)
(***************************************************************************)
EXTENDS Integers, Sequences, FiniteSets, TLC

\* ---------------------------------------------------------------- bounds
MaxUsers == 2
MaxInstances == 1

Usernames == {"alice", "bob"}

\* ---------------------------------------------------------- Python values
None == "<None>"
Absent == "<absent>"
Unknown == "Unknown"

\* Python truthiness of a string-or-None value.
Truthy(v) == v \notin {None, ""}

\* dict.get(k, default) on a record whose missing keys hold Absent.
Get(d, k, default) == IF d[k] = Absent THEN default ELSE d[k]

EmailOf(u) == IF u = "alice" THEN "alice@x.com" ELSE "bob@x.com"

TestEmail == "test@y.com"
KeyContents == {"", "KEYDATA"}

VARIABLES
    smtp_port, smtp_user, smtp_pass,   \* EnhancedSSHKeyEmailer fields
    test_email, dry_run, terraform_dir, \* command line
    pc,                \* position of the run
    users,             \* load_users result: sequence of records, in dict order
    keys,              \* keys_data of load_keys_from_directory: username -> key
    terraform_outputs, \* get_terraform_outputs result
    tf_result,         \* how get_terraform_outputs ended
    idx,               \* position of the per-user loop in users
    success_count, total_count,
    outcome,           \* username -> branch the loop took for that user
    instance_used,     \* username -> instance_info computed for that user
    user_index,        \* index of the instance last selected for a user
    composed,          \* usernames passed to create_email_content
    send_calls,        \* calls of send_email, in order
    sessions,          \* number of smtplib.SMTP sessions opened
    delivered,         \* messages accepted by server.send_message
    dry_reports,       \* "Would send email to" lines
    summary,           \* the printed summary, or NoSummary
    success,           \* what send_keys_to_users returned
    fatal,             \* why the run stopped early, or "none"
    exit_status        \* process exit status, or Running

vars == <<smtp_port, smtp_user, smtp_pass, test_email, dry_run, terraform_dir,
          pc, users, keys, terraform_outputs, tf_result, idx, success_count,
          total_count, outcome, instance_used, user_index, composed, send_calls,
          sessions,
          delivered, dry_reports, summary, success, fatal, exit_status>>

config == <<smtp_port, smtp_user, smtp_pass, test_email, dry_run, terraform_dir>>
loopvars == <<idx, success_count, total_count, outcome, instance_used, user_index, composed,
              send_calls, sessions, delivered, dry_reports>>

Running == -1
NoSummary == [total |-> -1, successful |-> -1, failed |-> -1]
NoOutputs == [is_none |-> TRUE, has_details |-> FALSE, details |-> <<>>]

\* ------------------------------------------------------------ pure helpers
RECURSIVE SeqsUpTo(_, _)
SeqsUpTo(S, n) ==
    IF n = 0 THEN {<<>>}
    ELSE LET shorter == SeqsUpTo(S, n - 1)
         IN shorter \cup {Append(s, x) : s \in {t \in shorter : Len(t) = n - 1}, x \in S}

Names(us) == {us[k].username : k \in 1..Len(us)}

\* {user['username']: user for user in data['users']}: a dict keeps the
\* position of a key's first insertion and the value of its last.
RECURSIVE UsersDict(_)
UsersDict(data) ==
    IF data = <<>> THEN <<>>
    ELSE LET n == Len(data)
             rest == UsersDict(SubSeq(data, 1, n - 1))
             last == data[n]
         IN IF last.username \in Names(rest)
            THEN [k \in 1..Len(rest) |->
                    IF rest[k].username = last.username THEN last ELSE rest[k]]
            ELSE Append(rest, last)

UserRecords == {[username |-> u, email |-> e] : u \in Usernames, e \in {Absent}} \cup
               {[username |-> u, email |-> EmailOf(u)] : u \in Usernames}

UnknownInfo == [instance_id |-> Unknown, ip_address |-> Unknown,
                instance_type |-> Unknown, region |-> Unknown]

\* Instance records an infrastructure output can carry.
InstancePool ==
    {[instance_id |-> "i-1", private_ip |-> "10.0.0.1", public_ip |-> "54.0.0.1",
      instance_type |-> "t3.micro", region |-> "us-east-1"],
     [instance_id |-> "i-2", private_ip |-> Absent, public_ip |-> "54.0.0.2",
      instance_type |-> Absent, region |-> "us-east-1"]}

\* hash(username) is salted per process: any value, of which only the
\* residue modulo the number of instances is used.
HashValues(outputs) ==
    IF Len(outputs.details) = 0 THEN {0} ELSE 0..(Len(outputs.details) - 1)

\* An instance is selected only when the outputs carry instances.
HasInstances(outputs) ==
    ~outputs.is_none /\ outputs.has_details /\ outputs.details # <<>>

\* user_index = hash(username) % len(instances); prev where none is selected
UserIndex(outputs, h, prev) ==
    IF HasInstances(outputs) THEN h % Len(outputs.details) ELSE prev

\* get_instance_info_for_user, with h = hash(username).
InstanceInfo(outputs, h) ==
    IF outputs.is_none \/ ~outputs.has_details THEN UnknownInfo
    ELSE IF outputs.details = <<>> THEN UnknownInfo
    ELSE LET instances == outputs.details
             instance == instances[(h % Len(instances)) + 1]
             first == Get(instance, "private_ip", Get(instance, "public_ip", Unknown))
             ip_address == IF ~Truthy(first) THEN Get(instance, "public_ip", Unknown)
                           ELSE first
         IN [instance_id |-> Get(instance, "instance_id", Unknown),
             ip_address |-> ip_address,
             instance_type |-> Get(instance, "instance_type", Unknown),
             region |-> Get(instance, "region", Unknown)]

\* if username in keys
HasKey(username, ks) == username \in DOMAIN ks

\* keys[username], read only where HasKey holds
KeyFor(username, ks) == IF username \in DOMAIN ks THEN ks[username] ELSE None

\* Variant: the scan's result is not tested, an empty key store goes on.
NoKeysFound_Ignored(keys_data) == FALSE

\* if not keys_data: sys.exit(1)
NoKeysFound(keys_data) == DOMAIN keys_data = {}

\* Variant: the run counts as a success as soon as one delivery succeeded.
AllSucceeded_Any(sc, tc) == sc > 0

\* return success_count == total_count
AllSucceeded(sc, tc) == sc = tc

\* create_email_content raises KeyError exactly when it evaluates
\* user_info['email'] on a record without that key.
ComposeRaises(user_info, override) == ~Truthy(override) /\ user_info.email = Absent

\* Variant: the override recipient is ignored.
Recipient_Own(user_info, override) == user_info.email

\* recipient_email = test_email if test_email else user_info['email']
Recipient(user_info, override) == IF Truthy(override) THEN override ELSE user_info.email

NoAttachment == "<no attachment>"

\* The steps of send_email that talk to the relay, in order.
TransportFaults == {"none", "connect", "starttls_unsupported", "login", "send"}

\* The fault the session actually meets: one at a step the code does not
\* take for this port and these credentials never happens.
Fault(port, user, pass, fault) ==
    IF port = 25 THEN (IF fault \in {"connect", "send"} THEN fault ELSE "none")
    ELSE IF fault = "login" /\ ~(Truthy(user) /\ Truthy(pass)) THEN "none"
    ELSE fault

\* send_email: the message it builds and what becomes of it.
SendEmail(port, user, pass, to_email, private_key, username, fault) ==
    LET msg == [to |-> to_email,
                filename |-> username,
                attachment |-> IF Truthy(private_key) /\ Truthy(username)
                               THEN private_key ELSE NoAttachment,
                encrypted |-> port # 25]
        met == Fault(port, user, pass, fault)
    IN [ok |-> met = "none",
        msg |-> msg,
        opened |-> IF met = "connect" THEN 0 ELSE 1,
        accepted |-> met = "none"]

\* ------------------------------------------------------------------- Init
Init ==
    /\ \E c \in {<<25, None, None>>, <<587, "mailer", "secret">>, <<587, None, None>>} :
          /\ smtp_port = c[1]
          /\ smtp_user = c[2]
          /\ smtp_pass = c[3]
    /\ test_email \in {None, TestEmail}
    /\ dry_run \in BOOLEAN
    /\ terraform_dir \in {"", "../terraform"}
    /\ pc = "main"
    /\ users = <<>>
    /\ keys = <<>>
    /\ terraform_outputs = NoOutputs
    /\ tf_result = "not_run"
    /\ idx = 1
    /\ success_count = 0
    /\ total_count = 0
    /\ outcome = <<>>
    /\ instance_used = <<>>
    /\ user_index = 0
    /\ composed = {}
    /\ send_calls = <<>>
    /\ sessions = 0
    /\ delivered = <<>>
    /\ dry_reports = <<>>
    /\ summary = NoSummary
    /\ success = FALSE
    /\ fatal = "none"
    /\ exit_status = Running

Exit(reason) ==
    /\ pc' = "exited"
    /\ fatal' = reason
    /\ exit_status' = 1

\* main(): argument validation before the emailer is built.
ValidateArgs ==
    /\ pc = "main"
    /\ IF smtp_port # 25 /\ (~Truthy(smtp_user) \/ ~Truthy(smtp_pass))
       THEN Exit("smtp_credentials_required")
       ELSE pc' = "load_users" /\ UNCHANGED <<fatal, exit_status>>
    /\ UNCHANGED <<config, users, keys, terraform_outputs, tf_result, loopvars, summary, success>>

\* load_users
LoadUsers ==
    /\ pc = "load_users"
    /\ \E file \in {"missing", "bad_yaml", "bad_shape", "ok"} :
          CASE file = "missing" -> Exit("users_file_not_found") /\ UNCHANGED users
            [] file = "bad_yaml" -> Exit("yaml_error") /\ UNCHANGED users
            \* parses, but is no mapping with a users list of records with
            \* a username: TypeError/KeyError, caught by nothing
            [] file = "bad_shape" -> Exit("users_uncaught_exception") /\ UNCHANGED users
            [] OTHER ->
                 \E data \in SeqsUpTo(UserRecords, MaxUsers) :
                    /\ users' = UsersDict(data)
                    /\ pc' = "load_keys"
                    /\ UNCHANGED <<fatal, exit_status>>
    /\ UNCHANGED <<config, keys, terraform_outputs, tf_result, loopvars, summary, success>>

\* A file of the keys directory, per username its name encodes.
KeyFileStates == {"no_file", "unreadable"} \cup KeyContents

\* load_keys_from_directory
LoadKeys ==
    /\ pc = "load_keys"
    /\ \/ \* the directory is missing, or listing it raises (outer except)
          /\ \E reason \in {"keys_dir_not_found", "keys_loading_error"} : Exit(reason)
          /\ UNCHANGED keys
       \/ \E files \in [Usernames -> KeyFileStates] :
             LET found == {u \in Usernames : files[u] \in KeyContents}
                 keys_data == [u \in found |-> files[u]]
             IN /\ keys' = keys_data
                /\ IF NoKeysFound(keys_data)
                   THEN Exit("no_private_keys")
                   ELSE pc' = "terraform" /\ UNCHANGED <<fatal, exit_status>>
    /\ UNCHANGED <<config, users, terraform_outputs, tf_result, loopvars, summary, success>>

TerraformDocuments ==
    {[is_none |-> FALSE, has_details |-> FALSE, details |-> <<>>]} \cup
    {[is_none |-> FALSE, has_details |-> TRUE, details |-> d] :
        d \in SeqsUpTo(InstancePool, MaxInstances)}

\* get_terraform_outputs, called only when terraform_dir is given; then
\* total_count = len(users) and the loop starts.
GetTerraformOutputs ==
    /\ pc = "terraform"
    /\ IF Truthy(terraform_dir)
       THEN \/ /\ tf_result' \in {"called_process_error", "json_decode_error", "other_error"}
               /\ terraform_outputs' = NoOutputs
            \/ /\ tf_result' = "ok"
               /\ terraform_outputs' \in TerraformDocuments
       ELSE UNCHANGED <<terraform_outputs, tf_result>>
    /\ total_count' = Len(users)
    /\ success_count' = 0
    /\ idx' = 1
    /\ pc' = "loop"
    /\ UNCHANGED <<config, users, keys, outcome, instance_used, user_index, composed, send_calls,
                   sessions, delivered, dry_reports, summary, success, fatal, exit_status>>

Put(f, k, v) == [x \in DOMAIN f \cup {k} |-> IF x = k THEN v ELSE f[x]]

\* One iteration of the loop of send_keys_to_users.
ProcessUser ==
    /\ pc = "loop"
    /\ idx <= Len(users)
    /\ LET user_info == users[idx]
           username == user_info.username
       IN IF ~HasKey(username, keys)
          THEN /\ outcome' = Put(outcome, username, "skipped_no_key")
               /\ idx' = idx + 1
               /\ UNCHANGED <<pc, success_count, instance_used, user_index, composed, send_calls,
                              sessions, delivered, dry_reports, fatal, exit_status>>
          ELSE \E h \in HashValues(terraform_outputs) :
               LET instance_info == InstanceInfo(terraform_outputs, h)
               IN /\ instance_used' = Put(instance_used, username, instance_info)
                  /\ user_index' = UserIndex(terraform_outputs, h, user_index)
                  /\ composed' = composed \cup {username}
                  /\ IF ComposeRaises(user_info, test_email)
                     THEN \* KeyError leaves the loop, the method and main
                          /\ pc' = "crashed"
                          /\ fatal' = "KeyError"
                          /\ exit_status' = 1
                          /\ UNCHANGED <<idx, success_count, outcome, send_calls,
                                         sessions, delivered, dry_reports>>
                     ELSE LET recipient_email == Recipient(user_info, test_email)
                          IN IF dry_run
                             THEN /\ dry_reports' = Append(dry_reports,
                                        [username |-> username, to |-> recipient_email])
                                  /\ success_count' = success_count + 1
                                  /\ outcome' = Put(outcome, username, "dry_run")
                                  /\ idx' = idx + 1
                                  /\ UNCHANGED <<pc, send_calls, sessions, delivered,
                                                 fatal, exit_status>>
                             ELSE \E fault \in TransportFaults :
                                  LET r == SendEmail(smtp_port, smtp_user, smtp_pass,
                                                     recipient_email, KeyFor(username, keys),
                                                     username, fault)
                                  IN /\ send_calls' = Append(send_calls,
                                           [username |-> username, to |-> recipient_email,
                                            fault |-> Fault(smtp_port, smtp_user,
                                                            smtp_pass, fault)])
                                     /\ sessions' = sessions + r.opened
                                     /\ delivered' = IF r.accepted
                                                     THEN Append(delivered, r.msg)
                                                     ELSE delivered
                                     /\ success_count' = IF r.ok THEN success_count + 1
                                                         ELSE success_count
                                     /\ outcome' = Put(outcome, username,
                                                       IF r.ok THEN "sent" ELSE "failed")
                                     /\ idx' = idx + 1
                                     /\ UNCHANGED <<pc, dry_reports, fatal, exit_status>>
    /\ UNCHANGED <<config, users, keys, terraform_outputs, tf_result, total_count,
                   summary, success>>

\* The summary after the loop; the method returns success_count == total_count.
Summary ==
    /\ pc = "loop"
    /\ idx > Len(users)
    /\ summary' = [total |-> total_count, successful |-> success_count,
                   failed |-> total_count - success_count]
    /\ success' = AllSucceeded(success_count, total_count)
    /\ pc' = "returned"
    /\ UNCHANGED <<config, users, keys, terraform_outputs, tf_result, loopvars,
                   fatal, exit_status>>

\* main(): the exit status from the method's result.
MainExit ==
    /\ pc = "returned"
    /\ exit_status' = IF success THEN 0 ELSE 1
    /\ pc' = "done"
    /\ UNCHANGED <<config, users, keys, terraform_outputs, tf_result, loopvars,
                   summary, success, fatal>>

Next ==
    \/ ValidateArgs
    \/ LoadUsers
    \/ LoadKeys
    \/ GetTerraformOutputs
    \/ ProcessUser
    \/ Summary
    \/ MainExit

Spec == Init /\ [][Next]_vars

\* ------------------------------------------ get_instance_info_for_user alone
\* What a private_ip or public_ip entry of an instance record can hold:
\* no such key, JSON null, the empty string, or an address.
IpValues(address) == {Absent, None, "", address}

AllInstances ==
    {[instance_id |-> "i-1", private_ip |-> p, public_ip |-> q,
      instance_type |-> "t3.micro", region |-> "us-east-1"] :
        p \in IpValues("10.0.0.1"), q \in IpValues("54.0.0.1")}

\* The method is called with outputs that carry one instance or more, so
\* that the selection by hash has something to choose from.
InitInstance ==
    /\ smtp_port = 25
    /\ smtp_user = None
    /\ smtp_pass = None
    /\ test_email = None
    /\ dry_run = FALSE
    /\ terraform_dir = "../terraform"
    /\ pc = "instance_info"
    /\ users = <<>>
    /\ keys = <<>>
    /\ \E d \in SeqsUpTo(AllInstances, MaxInstances + 1) \ {<<>>} :
          terraform_outputs = [is_none |-> FALSE, has_details |-> TRUE, details |-> d]
    /\ tf_result = "ok"
    /\ idx = 1
    /\ success_count = 0
    /\ total_count = 0
    /\ outcome = <<>>
    /\ instance_used = <<>>
    /\ user_index = 0
    /\ composed = {}
    /\ send_calls = <<>>
    /\ sessions = 0
    /\ delivered = <<>>
    /\ dry_reports = <<>>
    /\ summary = NoSummary
    /\ success = FALSE
    /\ fatal = "none"
    /\ exit_status = Running

\* One call of get_instance_info_for_user(username, terraform_outputs).
GetInstanceInfoForUser ==
    /\ pc = "instance_info"
    /\ \E username \in Usernames, h \in HashValues(terraform_outputs) :
          /\ instance_used' = Put(instance_used, username,
                                  InstanceInfo(terraform_outputs, h))
          /\ user_index' = UserIndex(terraform_outputs, h, user_index)
    /\ pc' = "instance_info_done"
    /\ UNCHANGED <<config, users, keys, terraform_outputs, tf_result, idx,
                   success_count, total_count, outcome, composed, send_calls,
                   sessions, delivered, dry_reports, summary, success, fatal,
                   exit_status>>

NextInstance == GetInstanceInfoForUser

SpecInstance == InitInstance /\ [][NextInstance]_vars

\* ====================================================== properties checked
Directory == Names(users)
UserRec(u) == users[CHOOSE k \in 1..Len(users) : users[k].username = u]
OutcomeOf(u) == IF u \in DOMAIN outcome THEN outcome[u] ELSE "pending"
Succeeded(u) == OutcomeOf(u) \in {"sent", "dry_run"}
ReportsFor(u) == {k \in 1..Len(dry_reports) : dry_reports[k].username = u}
CallsFor(u) == {k \in 1..Len(send_calls) : send_calls[k].username = u}
DeliveredFor(u) == {k \in 1..Len(delivered) : delivered[k].filename = u}

\* The run entered the per-user loop and is over.
LoopOver == pc \in {"done", "crashed"}
\* Nothing was composed, reported or handed to the relay.
NothingAttempted ==
    /\ composed = {}
    /\ send_calls = <<>>
    /\ sessions = 0
    /\ delivered = <<>>
    /\ dry_reports = <<>>
    /\ outcome = <<>>
\* load_keys_from_directory listed an existing directory.
KeysScanned ==
    \/ pc \in {"terraform", "loop", "returned", "done", "crashed"}
    \/ fatal = "no_private_keys"

\* ----------------------------------------------------------------- C1
\* C1: in dry-run mode, when the run is over every user that has a key and
\* a resolvable email (the override, or an email field) has exactly one
\* dry-run outcome, and no send_email call or SMTP session was made.
C1_DryRunEveryEligibleUser ==
    (dry_run /\ LoopOver) =>
        /\ \A u \in Directory :
              (u \in DOMAIN keys /\ (Truthy(test_email) \/ UserRec(u).email # Absent))
                 => (OutcomeOf(u) = "dry_run" /\ Cardinality(ReportsFor(u)) = 1)
        /\ send_calls = <<>>
        /\ sessions = 0

\* ----------------------------------------------------------------- C2
\* C2: when the run is over, every user of the directory without a key has
\* the outcome skipped_no_key, and was passed neither to
\* create_email_content nor to send_email.
C2_NoKeyIsSkipped ==
    LoopOver =>
        \A u \in Directory :
           u \notin DOMAIN keys =>
              /\ OutcomeOf(u) = "skipped_no_key"
              /\ u \notin composed
              /\ CallsFor(u) = {}

\* ----------------------------------------------------------------- C3
\* C3: a send_email call that met a transport fault leaves its user with
\* the outcome failed, and a run in which that happened ends with every
\* user of the directory processed and the summary printed.
C3_TransportFaultDoesNotAbort ==
    \A k \in 1..Len(send_calls) :
       send_calls[k].fault # "none" =>
          /\ OutcomeOf(send_calls[k].username) = "failed"
          /\ LoopOver =>
                /\ pc = "done"
                /\ summary # NoSummary
                /\ \A u \in Directory : OutcomeOf(u) # "pending"

\* ----------------------------------------------------------------- C4
\* C4: the method returns True, and the process exits 0, exactly when
\* every user of the directory ended as sent or dry_run; the summary
\* reports failed = total - successful over all users of the directory;
\* a run that ended with a user skipped or failed exits non-zero.
C4_SuccessIffAllDelivered ==
    /\ pc \in {"returned", "done"} =>
          /\ success <=> (\A u \in Directory : Succeeded(u))
          /\ summary.total = Len(users)
          /\ summary.successful = Cardinality({u \in Directory : Succeeded(u)})
          /\ summary.failed = summary.total - summary.successful
    /\ pc = "done" => (exit_status = 0 <=> (\A u \in Directory : Succeeded(u)))
    /\ exit_status = 0 => pc = "done"
    /\ (exit_status # Running /\ \E u \in Directory : ~Succeeded(u)) => exit_status = 1

C4_Witness ==
    /\ pc = "done"
    /\ exit_status = 1
    /\ summary.failed = 1
    /\ \E u, v \in Directory : OutcomeOf(u) = "sent" /\ OutcomeOf(v) = "failed"

\* ----------------------------------------------------------------- C5
\* C5: every send_email call, every message the relay accepted and every
\* dry-run report is addressed to the override recipient when one is
\* configured, and to the user's own email otherwise.
ExpectedRecipient(u) == IF test_email # None THEN test_email ELSE UserRec(u).email

C5_RecipientIsOverrideOrOwn ==
    /\ \A k \in 1..Len(send_calls) :
          send_calls[k].to = ExpectedRecipient(send_calls[k].username)
    /\ \A k \in 1..Len(delivered) :
          delivered[k].to = ExpectedRecipient(delivered[k].filename)
    /\ \A k \in 1..Len(dry_reports) :
          dry_reports[k].to = ExpectedRecipient(dry_reports[k].username)
    /\ \A k \in 1..Len(send_calls) : send_calls[k].to # Absent

C5_Witness ==
    /\ test_email = TestEmail
    /\ Len(delivered) = 2
    /\ \A k \in 1..2 : delivered[k].to = TestEmail
    /\ \E u \in Directory : UserRec(u).email = Absent
    /\ \E u \in Directory : UserRec(u).email = EmailOf(u)

\* ----------------------------------------------------------------- C6
\* C6: a missing or unparsable user source, a missing key directory or a
\* key directory without keys ends the run with exit status 1 and nothing
\* composed, reported or sent, in that state and ever after; a run that
\* scanned no key never goes on.
SetupFatal == {"users_file_not_found", "yaml_error", "users_uncaught_exception",
               "keys_dir_not_found", "keys_loading_error", "no_private_keys"}

C6_SetupFailFast ==
    /\ fatal \in SetupFatal => (pc = "exited" /\ exit_status = 1 /\ NothingAttempted)
    /\ (KeysScanned /\ DOMAIN keys = {}) => fatal = "no_private_keys"
    /\ ~NothingAttempted => pc \in {"loop", "returned", "done", "crashed"}

C6_Witness ==
    /\ fatal = "no_private_keys"
    /\ Len(users) = 2
    /\ exit_status = 1

\* ----------------------------------------------------------------- C7
\* The scenario: directory = {alice}, a key directory that exists and
\* holds no key, dry-run off.
C7_Scenario ==
    /\ users = <<[username |-> "alice", email |-> "alice@x.com"]>>
    /\ ~dry_run
    /\ KeysScanned
    /\ DOMAIN keys = {}

\* C7 as stated: in the scenario the run records skipped_no_key for alice,
\* reports a summary with failed = 1 and exits with failure status.
C7_AsStated ==
    (C7_Scenario /\ exit_status # Running) =>
        /\ OutcomeOf("alice") = "skipped_no_key"
        /\ summary.failed = 1
        /\ exit_status = 1

\* C7 amended: in the scenario the run stops in load_keys_from_directory
\* with exit status 1, before the loop: no outcome for alice, no summary.
C7_EmptyKeyStoreIsFatal ==
    C7_Scenario =>
        /\ pc = "exited"
        /\ fatal = "no_private_keys"
        /\ exit_status = 1
        /\ OutcomeOf("alice") = "pending"
        /\ summary = NoSummary
        /\ NothingAttempted

C7_Witness == C7_Scenario /\ exit_status = 1 /\ test_email = None /\ smtp_port = 25

\* ----------------------------------------------------------------- C8
\* C8: when the configured terraform query fails or prints malformed JSON,
\* get_terraform_outputs returns None, every instance_info computed is the
\* all-"Unknown" descriptor, and the run completes the loop for every user.
C8_TerraformFailureDegrades ==
    tf_result \in {"called_process_error", "json_decode_error", "other_error"} =>
        /\ terraform_outputs.is_none
        /\ \A u \in DOMAIN instance_used : instance_used[u] = UnknownInfo
        /\ LoopOver =>
              /\ pc = "done"
              /\ \A u \in Directory : OutcomeOf(u) # "pending"

\* ----------------------------------------------------------------- C9
\* C9: a send_email call whose relay does not support the TLS upgrade still
\* delivers the message, unencrypted, and its user is recorded as sent.
C9_StartTlsFallback ==
    \A k \in 1..Len(send_calls) :
       send_calls[k].fault = "starttls_unsupported" =>
          /\ OutcomeOf(send_calls[k].username) = "sent"
          /\ \E m \in DeliveredFor(send_calls[k].username) : ~delivered[m].encrypted

\* ---------------------------------------------------------------- C10
\* C10: a user with a key, no email field and no override recipient, once
\* the loop has reached it, has the outcome skipped_no_email, nothing is
\* sent for it, and the run has not been ended by an exception.
C10_NoEmailIsSkipped ==
    \A u \in Directory :
       (u \in DOMAIN keys /\ UserRec(u).email = Absent /\ ~Truthy(test_email)
          /\ u \in composed)
         => /\ OutcomeOf(u) = "skipped_no_email"
            /\ CallsFor(u) = {}
            /\ pc # "crashed"

\* ---------------------------------------------------------------- C11
\* The instance record the call selected.
SelectedInstance == terraform_outputs.details[user_index + 1]
PresentNonEmpty(v) == v \notin {Absent, None, ""}

\* C11: the ip_address returned for the selected instance is its private
\* address when that is present and non-empty, else its public address
\* when that is present and non-empty, else "Unknown"; it is never empty
\* or null.
C11_IpAddressPreference ==
    pc = "instance_info_done" =>
        \A u \in DOMAIN instance_used :
           /\ instance_used[u].ip_address =
                 IF PresentNonEmpty(SelectedInstance.private_ip)
                 THEN SelectedInstance.private_ip
                 ELSE IF PresentNonEmpty(SelectedInstance.public_ip)
                      THEN SelectedInstance.public_ip
                      ELSE Unknown
           /\ instance_used[u].ip_address \notin {"", None, Absent}

\* ---------------------------------------------------------------- C12
\* C12: every message the relay accepted carries, as its attachment, the
\* key the key store holds for its user, whatever that key's content, and
\* every user recorded as sent has such a message.
C12_SentCarriesKey ==
    /\ \A k \in 1..Len(delivered) :
          /\ delivered[k].filename \in DOMAIN keys
          /\ delivered[k].attachment # NoAttachment
          /\ delivered[k].attachment = keys[delivered[k].filename]
    /\ \A u \in Directory :
          OutcomeOf(u) = "sent" =>
             \E m \in DeliveredFor(u) :
                /\ delivered[m].attachment # NoAttachment
                /\ delivered[m].attachment = keys[u]

====
